---- MODULE Spec2Model ----
(***************************************************************************)
(* Family Finance API (backend/main.go): six bbolt buckets behind a REST   *)
(* layer.  A request handler is a goroutine: it decodes the JSON body and  *)
(* reads the clock (Begin...), then runs one bbolt transaction and writes  *)
(* the HTTP response (Commit).  Transactions are atomic and serialised by  *)
(* bbolt, so each one is a single step; handlers of different requests     *)
(* interleave between their steps.                                         *)
(***************************************************************************)
EXTENDS Integers, Sequences, FiniteSets, Bags, TLC

VARIABLES db, clock, inflight, response, nreq

vars == <<db, clock, inflight, response, nreq>>

(* ------------------------------ bounds -------------------------------- *)
\* requests accepted in one run of the server
MaxRequests == 2
\* last reading of the wall clock (in ticks); time.Now() may return the
\* same reading to two calls
MaxClock == 2
\* clock ticks in one second: RFC3339 keeps whole seconds only
TicksPerSec == 2

(* --------------------------- data model ------------------------------- *)
expensesBucket == "expenses"
budgetsBucket == "budgets"
goalsBucket == "goals"
investmentsBucket == "investments"
billsBucket == "bills"
incomeBucket == "income"

Buckets ==
  {expensesBucket, budgetsBucket, goalsBucket, investmentsBucket, billsBucket, incomeBucket}

\* the empty timestamp string (zero value of CreatedAt / UpdatedAt);
\* a timestamp string is modelled by the whole second it renders
NoTime == -1

\* fields of the Go structs (their JSON names)
Expense ==
  {"id", "amount", "currency", "description", "category", "categoryColor", "merchant",
   "date", "user", "isShared", "hasAttachments", "commentCount", "notes", "attachments",
   "createdAt", "updatedAt"}
Budget == {"id", "category", "limit", "spent", "color"}
Goal == {"id", "name", "target", "current", "deadline", "color"}
Investment == {"id", "name", "type", "value", "investedValue", "returns", "returnsPercent"}
BillReminder == {"id", "name", "amount", "dueDate", "status", "category"}
Income ==
  {"id", "amount", "currency", "source", "description", "date", "isRecurring", "user",
   "createdAt", "updatedAt"}

StructFields(kind) ==
  CASE kind = expensesBucket -> Expense
    [] kind = budgetsBucket -> Budget
    [] kind = goalsBucket -> Goal
    [] kind = investmentsBucket -> Investment
    [] kind = billsBucket -> BillReminder
    [] kind = incomeBucket -> Income

\* fields tagged `omitempty`
OmitEmpty == {"categoryColor", "notes", "attachments"}

NumberFields ==
  {"amount", "limit", "spent", "target", "current", "value", "investedValue", "returns",
   "returnsPercent", "commentCount"}
BoolFields == {"isShared", "hasAttachments", "isRecurring"}
ListFields == {"attachments", "budgetIds"}
TimeFields == {"createdAt", "updatedAt"}

\* Go zero value of a struct field
Zero(f) ==
  IF f \in NumberFields THEN 0
  ELSE IF f \in BoolFields THEN FALSE
  ELSE IF f \in ListFields THEN << >>
  ELSE IF f \in TimeFields THEN NoTime
  ELSE ""

\* json.Unmarshal of a JSON object into a zeroed struct: a member fills the
\* field of its name, unknown members are dropped, missing ones stay zero
Unmarshal(kind, obj) ==
  [f \in StructFields(kind) |-> IF f \in DOMAIN obj THEN obj[f] ELSE Zero(f)]

\* json.Marshal of a struct: every field, except omitempty fields holding
\* their zero value
Marshal(rec) ==
  [f \in {g \in DOMAIN rec : ~(g \in OmitEmpty /\ rec[g] = Zero(g))} |-> rec[f]]

\* time.Now().Format(time.RFC3339): the reading cut to whole seconds
RFC3339(t) == t \div TicksPerSec

\* fmt.Sprintf("%d", time.Now().UnixNano())
UnixNanoId(t) == ToString(t)

(* ------------------------------- store -------------------------------- *)
\* a bucket is a finite map from key to bytes (the marshalled JSON object)
EmptyBucket == << >>

Get(b, k) == b[k]
Has(b, k) == k \in DOMAIN b
Put(b, k, v) == [x \in DOMAIN b \cup {k} |-> IF x = k THEN v ELSE b[x]]
Delete(b, k) == [x \in DOMAIN b \ {k} |-> b[x]]

\* keys in bbolt's iteration order (byte order): decimal clock renderings of
\* one digit, then the letters
ClientId == "k1"

\* ids chosen by clients, in byte order
ClientIds == <<ClientId, "k2", "k3", "k4", "k5", "k6", "k7">>

KeyOrder == [i \in 1..(MaxClock + 1) |-> UnixNanoId(i - 1)] \o ClientIds

KeysOf(b) == SelectSeq(KeyOrder, LAMBDA k : Has(b, k))

\* Bucket.ForEach with json.Unmarshal of each value, appended in key order
Scan(kind, b) == [i \in 1..Len(KeysOf(b)) |-> Unmarshal(kind, b[KeysOf(b)[i]])]

(* ------------------------------ inputs -------------------------------- *)
\* request bodies (JSON objects by member name).  UiPayload: what the UI
\* posts for a new record (no id, no timestamps)
UiPayload(kind) ==
  CASE kind = expensesBucket ->
         [amount |-> 100, description |-> "veg", category |-> "groceries",
          merchant |-> "mart", date |-> "2026-01-05", user |-> "You", isShared |-> FALSE,
          hasAttachments |-> FALSE, commentCount |-> 0, budgetIds |-> <<"b1">>]
    [] kind = budgetsBucket ->
         [name |-> "Food", category |-> "groceries", month |-> "2026-01", limit |-> 1000,
          spent |-> 0, color |-> "#22c55e"]
    [] kind = goalsBucket ->
         [name |-> "Car", target |-> 1000, current |-> 10, deadline |-> "2027-01-01",
          color |-> "#3b82f6"]
    [] kind = investmentsBucket ->
         [name |-> "Fund", type |-> "mf", value |-> 110, investedValue |-> 100,
          returns |-> 10, returnsPercent |-> 10]
    [] kind = billsBucket ->
         [name |-> "Rent", amount |-> 900, dueDate |-> "2026-02-01", status |-> "upcoming",
          category |-> "housing"]
    [] kind = incomeBucket -> [amount |-> 50000, source |-> "salary"]

\* ReplayPayload: a whole record sent back, carrying an id and timestamps
ReplayPayload(kind) ==
  CASE kind = expensesBucket ->
         [id |-> ClientId, amount |-> 50, currency |-> "USD", description |-> "lunch",
          category |-> "dining", categoryColor |-> "#ef4444", merchant |-> "cafe",
          date |-> "2026-01-06", user |-> "You", isShared |-> TRUE, hasAttachments |-> TRUE,
          commentCount |-> 0, notes |-> "n", attachments |-> <<"a.png">>,
          budgetIds |-> << >>, createdAt |-> 99, updatedAt |-> 99]
    [] kind = budgetsBucket ->
         [id |-> ClientId, name |-> "", category |-> "dining", month |-> "", limit |-> 500,
          spent |-> 20, color |-> "#ef4444"]
    [] kind = goalsBucket ->
         [id |-> ClientId, name |-> "Trip", target |-> 500, current |-> 0,
          deadline |-> "2026-06-01", color |-> "#22c55e"]
    [] kind = investmentsBucket ->
         [id |-> ClientId, name |-> "Gold", type |-> "gold", value |-> 50,
          investedValue |-> 50, returns |-> 0, returnsPercent |-> 0]
    [] kind = billsBucket ->
         [id |-> ClientId, name |-> "Power", amount |-> 40, dueDate |-> "2026-01-20",
          status |-> "due", category |-> "utilities"]
    [] kind = incomeBucket ->
         [id |-> ClientId, amount |-> 300, currency |-> "USD", source |-> "gift",
          description |-> "g", date |-> "2026-01-02", isRecurring |-> FALSE, user |-> "You",
          createdAt |-> 99, updatedAt |-> 99]

Payloads(kind) ==
  IF kind \in {expensesBucket, budgetsBucket, incomeBucket}
  THEN {UiPayload(kind), ReplayPayload(kind)}
  ELSE {UiPayload(kind)}

\* {id} path parameters: the id generated at reading 0 and a client-chosen id
PathIds(kind) ==
  IF kind = expensesBucket THEN {UnixNanoId(0), ClientId} ELSE {UnixNanoId(0)}

(* ----------------------------- handlers ------------------------------- *)
\* the answer written last: respondJSON(w, status, data)
\* null: the JSON text written is `null` instead of an array
\* cors: the answer carries the three Access-Control-Allow headers
NoResponse ==
  [op |-> "none", kind |-> "none", id |-> "", status |-> 0, body |-> << >>, null |-> FALSE,
   cors |-> FALSE]

\* every route is served behind corsMiddleware, which sets the headers
\* before the handler runs
Respond(op, kind, id, status, body) ==
  [op |-> op, kind |-> kind, id |-> id, status |-> status, body |-> body, null |-> FALSE,
   cors |-> TRUE]

\* a Go slice declared with `var s []T` and filled by append: nil while
\* nothing was appended
Slice(items) == [nil |-> items = << >>, items |-> items]

\* if s == nil { s = []T{} }
OrEmpty(s) == [s EXCEPT !.nil = FALSE]

\* json encoding of a slice: a nil slice is written as `null`
EncodeSlice(s) == [null |-> s.nil, items |-> s.items]

\* createExpense .. createIncome up to the transaction: the decoded struct
\* with the id, the timestamps and the currency the handler assigns.
\* now, nano: the two readings of time.Now()
CreateRecord(kind, decoded, now, nano) ==
  LET withId == IF decoded.id = "" THEN [decoded EXCEPT !.id = UnixNanoId(nano)] ELSE decoded
      withCur == IF kind = expensesBucket /\ withId.currency = ""
                 THEN [withId EXCEPT !.currency = "INR"] ELSE withId
  IN IF kind \in {expensesBucket, incomeBucket}
     THEN [withCur EXCEPT !.createdAt = now, !.updatedAt = now]
     ELSE withCur

\* (mutant) the id the body carries is kept
UpdateRecordKeepId(kind, id, decoded, now) ==
  IF decoded.id = "" THEN [decoded EXCEPT !.id = id] ELSE decoded

\* updateExpense .. updateIncome up to the transaction
UpdateRecord(kind, id, decoded, now) ==
  LET withId == [decoded EXCEPT !.id = id]
      withTime == IF kind \in {expensesBucket, incomeBucket}
                  THEN [withId EXCEPT !.updatedAt = now] ELSE withId
  IN IF kind = expensesBucket /\ withTime.currency = ""
     THEN [withTime EXCEPT !.currency = "INR"] ELSE withTime

\* (mutant) the decoded record is laid over the stored one: a member the
\* body leaves at its zero value keeps the stored value
MergedOverStored(kind, b, id, rec) ==
  IF Has(b, id)
  THEN [f \in DOMAIN rec |->
          IF rec[f] = Zero(f) THEN Unmarshal(kind, Get(b, id))[f] ELSE rec[f]]
  ELSE rec

\* (mutant) the stored CreatedAt is not carried over
MergedFromPayload(kind, b, id, rec) == rec

\* inside the update transaction of expenses and income: CreatedAt of the
\* stored record, when there is one, replaces the decoded one
Merged(kind, b, id, rec) ==
  IF kind \in {expensesBucket, incomeBucket} /\ Has(b, id)
  THEN [rec EXCEPT !.createdAt = Unmarshal(kind, Get(b, id)).createdAt]
  ELSE rec

\* (mutant) the update writes only over a record that is there
UpdateTxIfPresent(kind, b, id, rec) ==
  IF Has(b, id) THEN Put(b, id, Marshal(Merged(kind, b, id, rec))) ELSE b

\* the update transaction: b.Put(id, json.Marshal(record))
UpdateTx(kind, b, id, rec) == Put(b, id, Marshal(Merged(kind, b, id, rec)))

\* the create transaction: b.Put(record.ID, json.Marshal(record))
CreateTx(b, rec) == Put(b, rec.id, Marshal(rec))

\* (mutant) the delete empties the bucket
DeleteTxAll(b, id) == EmptyBucket

\* the delete transaction: b.Delete(id)
DeleteTx(b, id) == Delete(b, id)

CanAccept == nreq < MaxRequests

\* a handler between its decoding and its transaction
Handler(op, kind, id, P, rec) ==
  [op |-> op, kind |-> kind, id |-> id, payload |-> P, rec |-> rec]

\* POST /api/<kind>: decode, read the clock (twice where timestamps are
\* kept: d is the time that passes between the two readings)
BeginCreate(kind, P, d) ==
  /\ CanAccept
  /\ clock + d <= MaxClock
  /\ d = 0 \/ kind \in {expensesBucket, incomeBucket}
  /\ nreq' = nreq + 1
  /\ clock' = clock + d
  /\ inflight' = inflight (+) SetToBag({Handler("create", kind, "", P,
         CreateRecord(kind, Unmarshal(kind, P), RFC3339(clock), clock + d))})
  /\ UNCHANGED <<db, response>>

\* POST /api/<kind>: the write transaction and the 201 answer
CommitCreate(r) ==
  /\ BagIn(r, inflight) /\ r.op = "create"
  /\ db' = [db EXCEPT ![r.kind] = CreateTx(@, r.rec)]
  /\ response' = Respond("create", r.kind, r.rec.id, 201, <<Marshal(r.rec)>>)
  /\ inflight' = inflight (-) SetToBag({r})
  /\ UNCHANGED <<clock, nreq>>

\* PUT /api/<kind>/{id}: decode, force the id, read the clock
BeginUpdate(kind, id, P) ==
  /\ CanAccept
  /\ nreq' = nreq + 1
  /\ inflight' = inflight (+) SetToBag({Handler("update", kind, id, P,
         UpdateRecord(kind, id, Unmarshal(kind, P), RFC3339(clock)))})
  /\ UNCHANGED <<db, clock, response>>

\* PUT /api/<kind>/{id}: the write transaction and the 200 answer
CommitUpdate(r) ==
  /\ BagIn(r, inflight) /\ r.op = "update"
  /\ db' = [db EXCEPT ![r.kind] = UpdateTx(r.kind, @, r.id, r.rec)]
  /\ response' = Respond("update", r.kind, r.id, 200,
                          <<Marshal(Merged(r.kind, db[r.kind], r.id, r.rec))>>)
  /\ inflight' = inflight (-) SetToBag({r})
  /\ UNCHANGED <<clock, nreq>>

\* DELETE /api/<kind>/{id}
DeleteRecord(kind, id) ==
  /\ CanAccept
  /\ nreq' = nreq + 1
  /\ db' = [db EXCEPT ![kind] = DeleteTx(@, id)]
  /\ response' = Respond("delete", kind, id, 200, << >>)
  /\ UNCHANGED <<clock, inflight>>

\* (mutant) no check for a missing value: the zero record with 200
getExpenseResponseNoCheck(b, id) ==
  Respond("get", expensesBucket, id, 200,
          <<Marshal(Unmarshal(expensesBucket, IF Has(b, id) THEN Get(b, id) ELSE << >>))>>)

\* getExpense: 404 when the key is absent, else the decoded record
getExpenseResponse(b, id) ==
  IF Has(b, id)
  THEN Respond("get", expensesBucket, id, 200, <<Marshal(Unmarshal(expensesBucket, Get(b, id)))>>)
  ELSE Respond("get", expensesBucket, id, 404, << >>)

\* the records of a scan as they are written into a JSON array
MarshalAll(recs) == [i \in 1..Len(recs) |-> Marshal(recs[i])]

\* (mutant) the nil slice of an empty bucket is encoded as it is
ListResponseNil(kind, b) ==
  [Respond("list", kind, "", 200, MarshalAll(Scan(kind, b)))
     EXCEPT !.null = EncodeSlice(Slice(MarshalAll(Scan(kind, b)))).null]

\* getExpenses .. getIncomes: the scan of the bucket, `[]` when it is empty
ListResponse(kind, b) ==
  [Respond("list", kind, "", 200, MarshalAll(Scan(kind, b)))
     EXCEPT !.null = EncodeSlice(OrEmpty(Slice(MarshalAll(Scan(kind, b))))).null]

\* GET /api/expenses/{id}
getExpense(id) ==
  /\ CanAccept
  /\ nreq' = nreq + 1
  /\ response' = getExpenseResponse(db[expensesBucket], id)
  /\ UNCHANGED <<db, clock, inflight>>

\* GET /api/<kind>
List(kind) ==
  /\ CanAccept
  /\ nreq' = nreq + 1
  /\ response' = ListResponse(kind, db[kind])
  /\ UNCHANGED <<db, clock, inflight>>

\* (mutant) the decode error is not looked at
DecodeErrorResponseIgnored(op, kind, id) ==
  Respond(op, kind, id, IF op = "create" THEN 201 ELSE 200, << >>)

\* respondError(w, http.StatusBadRequest, err.Error())
DecodeErrorResponse(op, kind, id) ==
  Respond(op, kind, id, 400, <<[error |-> "invalid character"]>>)

\* POST /api/<kind> with a body json.Decode rejects: the handler returns
\* before it reads the clock or opens a transaction
createMalformed(kind) ==
  /\ CanAccept
  /\ nreq' = nreq + 1
  /\ response' = DecodeErrorResponse("create", kind, "")
  /\ UNCHANGED <<db, clock, inflight>>

\* PUT /api/<kind>/{id} with a body json.Decode rejects
updateMalformed(kind, id) ==
  /\ CanAccept
  /\ nreq' = nreq + 1
  /\ response' = DecodeErrorResponse("update", kind, id)
  /\ UNCHANGED <<db, clock, inflight>>

\* the registered API paths: /api/<kind>, /api/<kind>/{id}, /api/stats and
\* /api/dashboard (id "" is the path without {id})
Routes ==
  {<<kind, id>> : kind \in Buckets, id \in {""} \cup {UnixNanoId(0), ClientId}}
    \cup {<<"stats", "">>, <<"dashboard", "">>}

\* (mutant) the method is passed on and no handler takes it
corsPreflightResponsePassedOn(kind, id) ==
  Respond("options", kind, id, 405, << >>)

\* corsMiddleware on OPTIONS: the headers, WriteHeader(200) and return
corsPreflightResponse(kind, id) == Respond("options", kind, id, 200, << >>)

\* OPTIONS on a registered path: corsMiddleware answers, next.ServeHTTP is
\* not reached
corsPreflight(kind, id) ==
  /\ CanAccept
  /\ nreq' = nreq + 1
  /\ response' = corsPreflightResponse(kind, id)
  /\ UNCHANGED <<db, clock, inflight>>

(* ---------------------------- aggregation ----------------------------- *)
RECURSIVE GCD(_, _)
GCD(a, b) == IF b = 0 THEN a ELSE GCD(b, a % b)

\* the float64 quotient n / d (d > 0), kept exact as a fraction in lowest
\* terms; amounts are whole numbers here, so sums and differences are exact
Quotient(n, d) ==
  LET g == GCD(IF n < 0 THEN -n ELSE n, d) IN [num |-> n \div g, den |-> d \div g]

\* the float64 literal 0.0
ZeroFloat == Quotient(0, 1)

\* (mutant) the share of what was spent instead of what is left
PercentLeftOfSpent(total, spent) == Quotient(spent * 100, total)

\* ((total - spent) / total) * 100
PercentLeft(total, spent) == Quotient((total - spent) * 100, total)

\* total += rec.f over a scan
RECURSIVE SumOf(_, _)
SumOf(recs, f) ==
  IF recs = << >> THEN 0
  ELSE SumOf(SubSeq(recs, 1, Len(recs) - 1), f) + recs[Len(recs)][f]

\* getStats: what the read transaction writes into the stats map
getStatsBody(d) ==
  LET expenses == Scan(expensesBucket, d[expensesBucket])
      totalSpent == SumOf(expenses, "amount")
      totalBudget == SumOf(Scan(budgetsBucket, d[budgetsBucket]), "limit")
  IN [totalSpent |-> totalSpent, monthlyBudget |-> totalBudget,
      transactionCount |-> Len(expenses),
      savingsRate |-> IF totalBudget > 0 THEN PercentLeft(totalBudget, totalSpent)
                      ELSE ZeroFloat]

\* getStats: the stats map as it is initialised, the result of db.View is
\* dropped, 200 in every case.  viewOk: db.View ran the transaction
getStatsResponse(d, viewOk) ==
  Respond("stats", "none", "", 200,
          <<IF viewOk THEN getStatsBody(d)
            ELSE [totalSpent |-> 0, monthlyBudget |-> 0, transactionCount |-> 0,
                  savingsRate |-> ZeroFloat]>>)

\* GET /api/stats
getStats(viewOk) ==
  /\ CanAccept
  /\ nreq' = nreq + 1
  /\ response' = getStatsResponse(db, viewOk)
  /\ UNCHANGED <<db, clock, inflight>>

defaultColors ==
  <<"#22c55e", "#ef4444", "#f59e0b", "#3b82f6", "#8b5cf6", "#ec4899", "#14b8a6", "#6366f1">>

\* recentExpenses[:5]
RecentLimit == 5

\* the keys of categorySpending after the expense scan
Categories(expenses) == {expenses[i].category : i \in 1..Len(expenses)}

\* (mutant) the amount is stored instead of added
categorySpendingLast(expenses, cat) ==
  LET hits == SelectSeq(expenses, LAMBDA e : e.category = cat)
  IN hits[Len(hits)].amount

\* categorySpending[cat]
categorySpending(expenses, cat) ==
  SumOf(SelectSeq(expenses, LAMBDA e : e.category = cat), "amount")

\* categoryColors[cat]: the categoryColor of the last expense of the scan
\* that carries one, "" when the map has no such key
categoryColors(expenses, cat) ==
  LET hits == SelectSeq(expenses, LAMBDA e : e.category = cat /\ e.categoryColor # "")
  IN IF hits = << >> THEN "" ELSE hits[Len(hits)].categoryColor

\* the orders in which `range categorySpending` may visit the keys: Go leaves
\* the iteration order of a map unspecified and the runtime randomises it
RangeOrders(S) ==
  {o \in [1..Cardinality(S) -> S] : \A i, j \in 1..Cardinality(S) : o[i] = o[j] => i = j}

\* (mutant) every category takes a slot of the palette
categoryDataEverySlot(expenses, order) ==
  [i \in 1..Len(order) |->
     [name |-> order[i], value |-> categorySpending(expenses, order[i]),
      color |-> IF categoryColors(expenses, order[i]) = ""
                THEN defaultColors[((i - 1) % Len(defaultColors)) + 1]
                ELSE categoryColors(expenses, order[i])]]

\* (mutant) the newest records instead of the first ones
recentExpensesLast(expenses) ==
  IF Len(expenses) > RecentLimit
  THEN SubSeq(expenses, Len(expenses) - RecentLimit + 1, Len(expenses))
  ELSE expenses

\* recentExpenses := expenses; if len > 5 { recentExpenses[:5] }
recentExpenses(expenses) ==
  IF Len(expenses) > RecentLimit THEN SubSeq(expenses, 1, RecentLimit) ELSE expenses

\* the categoryData loop over the keys in the order `order`
categoryData(expenses, order) ==
  [i \in 1..Len(order) |->
     LET cat == order[i]
         colorIdx == Cardinality({j \in 1..(i - 1) : categoryColors(expenses, order[j]) = ""})
     IN [name |-> cat, value |-> categorySpending(expenses, cat),
         color |-> IF categoryColors(expenses, cat) = ""
                   THEN defaultColors[(colorIdx % Len(defaultColors)) + 1]
                   ELSE categoryColors(expenses, cat)]]

\* (mutant) the savings rate taken against the budgets, as getStats does
dashboardStatsOfBudget(totalSpent, totalIncome, totalBudget, count) ==
  [totalSpent |-> totalSpent, totalIncome |-> totalIncome, monthlyBudget |-> totalBudget,
   transactionCount |-> count,
   savingsRate |-> IF totalBudget > 0 THEN PercentLeft(totalBudget, totalSpent)
                   ELSE ZeroFloat,
   netBalance |-> totalIncome - totalSpent]

\* dashboard["stats"]
dashboardStats(totalSpent, totalIncome, totalBudget, count) ==
  [totalSpent |-> totalSpent, totalIncome |-> totalIncome, monthlyBudget |-> totalBudget,
   transactionCount |-> count,
   savingsRate |-> IF totalIncome > 0 THEN PercentLeft(totalIncome, totalSpent)
                   ELSE ZeroFloat,
   netBalance |-> totalIncome - totalSpent]

\* (mutant) the income scan runs against a store not yet written to
DashboardScanIncomeApart(d, kind, viewOk) ==
  IF viewOk /\ kind # incomeBucket THEN Scan(kind, d[kind]) ELSE << >>

\* what getDashboardData holds after db.View: the five scans when the
\* transaction ran, nothing when it did not
DashboardScan(d, kind, viewOk) == IF viewOk THEN Scan(kind, d[kind]) ELSE << >>

\* getDashboardData: the result of db.View is dropped, the slices stay nil
\* when nothing was appended, 200 in every case
getDashboardDataResponse(d, viewOk, order) ==
  LET expenses == DashboardScan(d, expensesBucket, viewOk)
      recent == recentExpenses(expenses)
      list(kind) == EncodeSlice(Slice(MarshalAll(DashboardScan(d, kind, viewOk))))
  IN Respond("dashboard", "none", "", 200,
       <<[stats |-> dashboardStats(SumOf(expenses, "amount"),
                      SumOf(DashboardScan(d, incomeBucket, viewOk), "amount"),
                      SumOf(DashboardScan(d, budgetsBucket, viewOk), "limit"),
                      Len(expenses)),
          expenses |-> list(expensesBucket),
          recentTransactions |-> EncodeSlice(Slice(MarshalAll(recent))),
          budgets |-> list(budgetsBucket),
          goals |-> list(goalsBucket),
          bills |-> list(billsBucket),
          incomes |-> list(incomeBucket),
          categoryData |-> EncodeSlice(Slice(categoryData(expenses, order)))]>>)

\* GET /api/dashboard
getDashboardData(viewOk) ==
  /\ CanAccept
  /\ nreq' = nreq + 1
  /\ \E order \in RangeOrders(Categories(DashboardScan(db, expensesBucket, viewOk))) :
        response' = getDashboardDataResponse(db, viewOk, order)
  /\ UNCHANGED <<db, clock, inflight>>

\* the wall clock advances
Tick ==
  /\ clock < MaxClock
  /\ clock' = clock + 1
  /\ UNCHANGED <<db, inflight, response, nreq>>

\* the database file main opens: new, or left by an earlier run in which the
\* UI created one record of each kind at clock reading 0
NewStore == [b \in Buckets |-> EmptyBucket]
UsedStore ==
  [b \in Buckets |->
     CreateTx(EmptyBucket, CreateRecord(b, Unmarshal(b, UiPayload(b)), RFC3339(0), 0))]

\* main: the store is open and every bucket exists (CreateBucketIfNotExists)
Init ==
  /\ db \in {NewStore, UsedStore}
  /\ clock = 1
  /\ inflight = EmptyBag
  /\ response = NoResponse
  /\ nreq = 0

Next ==
  \/ \E kind \in Buckets, d \in {0, 1} : \E P \in Payloads(kind) : BeginCreate(kind, P, d)
  \/ \E r \in BagToSet(inflight) : CommitCreate(r)
  \/ \E kind \in Buckets : \E id \in PathIds(kind), P \in Payloads(kind) :
        BeginUpdate(kind, id, P)
  \/ \E r \in BagToSet(inflight) : CommitUpdate(r)
  \/ \E kind \in Buckets : \E id \in PathIds(kind) : DeleteRecord(kind, id)
  \/ \E id \in PathIds(expensesBucket) : getExpense(id)
  \/ \E kind \in Buckets : List(kind)
  \/ getStats(TRUE)
  \/ getDashboardData(TRUE)
  \/ \E kind \in Buckets : createMalformed(kind)
  \/ \E kind \in Buckets : \E id \in PathIds(kind) : updateMalformed(kind, id)
  \/ \E route \in Routes : corsPreflight(route[1], route[2])
  \/ Tick

Spec == Init /\ [][Next]_vars

(* ------------------- aggregation over a filled ledger ------------------ *)
\* bodies of expenses an earlier run stored: the UI's, a second one in its
\* category, one in another category, and one that carries a categoryColor
SpendingPayloads ==
  {UiPayload(expensesBucket),
   [amount |-> 50, category |-> "groceries", description |-> "milk"],
   [amount |-> 25, category |-> "dining", description |-> "tea"],
   [amount |-> 150, category |-> "travel", categoryColor |-> "#3b82f6",
    description |-> "bus"]}

\* the bucket after creates of the bodies f[t] at the clock readings t
Created(kind, f) ==
  LET recs == {CreateRecord(kind, Unmarshal(kind, f[t]), RFC3339(t), t) : t \in DOMAIN f}
  IN [k \in {r.id : r \in recs} |-> Marshal(CHOOSE r \in recs : r.id = k)]

\* database files left by an earlier run: expenses created at any of the
\* clock readings, and any of the UI's and the replayed budget and income
LedgerStores ==
  {[b \in Buckets |->
      CASE b = expensesBucket -> Created(b, f)
        [] b \in ui \cap replay -> Created(b, [t \in {0} |-> UiPayload(b)])
                                     @@ Created(b, [t \in {0} |-> ReplayPayload(b)])
        [] b \in ui \ replay -> Created(b, [t \in {0} |-> UiPayload(b)])
        [] b \in replay \ ui -> Created(b, [t \in {0} |-> ReplayPayload(b)])
        [] OTHER -> EmptyBucket] :
     f \in UNION {[T -> SpendingPayloads] : T \in SUBSET (0..MaxClock)},
     ui \in SUBSET {budgetsBucket, incomeBucket},
     replay \in SUBSET {budgetsBucket, incomeBucket}}

\* the server while the store refuses read transactions: db.View returns
\* an error without running the function it was given
NextFailing ==
  \/ Next
  \/ getStats(FALSE)
  \/ getDashboardData(FALSE)

FailingSpec == Init /\ [][NextFailing]_vars

\* bodies of expenses a client stored under ids of its own: three
\* categories, one of them with two different categoryColors, dates in no
\* order
WidePayloads ==
  <<[amount |-> 10, category |-> "travel", categoryColor |-> "#3b82f6", date |-> "2026-01-03"],
    [amount |-> 20, category |-> "travel", categoryColor |-> "#ec4899", date |-> "2026-01-07"],
    [amount |-> 30, category |-> "groceries", date |-> "2026-01-01"],
    [amount |-> 40, category |-> "dining", date |-> "2026-01-05"],
    [amount |-> 50, category |-> "groceries", date |-> "2026-01-02"],
    [amount |-> 60, category |-> "travel", date |-> "2026-01-06"],
    [amount |-> 70, category |-> "dining", date |-> "2026-01-04"]>>

\* database files that hold only expenses, up to seven of them
WideStores ==
  {[b \in Buckets |->
      IF b = expensesBucket
      THEN Created(b, [i \in T |-> [id |-> ClientIds[i]] @@ WidePayloads[i]])
      ELSE EmptyBucket] : T \in SUBSET (1..Len(WidePayloads))}

InitLedger ==
  /\ db \in LedgerStores \cup WideStores
  /\ clock = MaxClock
  /\ inflight = EmptyBag
  /\ response = NoResponse
  /\ nreq = 0

NextLedger ==
  \/ getStats(TRUE)
  \/ getDashboardData(TRUE)

\* the aggregation endpoints read a ledger of several expenses
LedgerSpec == InitLedger /\ [][NextLedger]_vars

(* ------------------------------ claims -------------------------------- *)
\* the handler r runs its transaction and answers in this step
Commits(r) == BagIn(r, inflight) /\ inflight' = inflight (-) SetToBag({r})

\* a member of a JSON object as its reader sees it (absent reads as zero)
FieldOf(obj, f) == IF f \in DOMAIN obj THEN obj[f] ELSE Zero(f)

Without(obj, fs) == [f \in DOMAIN obj \ fs |-> obj[f]]

Timestamped == {expensesBucket, incomeBucket}

\* obj equals the payload P on every attribute P carries, the
\* server-assigned ones aside
SameAsPayload(P, obj) ==
  \A f \in DOMAIN P \ {"id", "createdAt", "updatedAt"} : FieldOf(obj, f) = P[f]

\* C1: once create(P) has committed, list() of that kind (and get(id) for
\* an expense) returns a record equal to P on every data-model attribute
\* but id, createdAt, updatedAt and a defaulted currency.
C1_CreateThenReadReturnsPayload ==
  [][\A r \in BagToSet(inflight) :
       (r.op = "create" /\ Commits(r)) =>
         /\ \E i \in 1..Len(ListResponse(r.kind, db'[r.kind]).body) :
              /\ ListResponse(r.kind, db'[r.kind]).body[i].id = r.rec.id
              /\ SameAsPayload(r.payload, ListResponse(r.kind, db'[r.kind]).body[i])
         /\ r.kind = expensesBucket =>
              /\ getExpenseResponse(db'[r.kind], r.rec.id).status = 200
              /\ SameAsPayload(r.payload, getExpenseResponse(db'[r.kind], r.rec.id).body[1])]_vars

\* C2: an expense created or updated with budgetIds L is stored with L: a
\* get of it right after the write returns budgetIds = L.
C2_BudgetIdsStored ==
  [][\A r \in BagToSet(inflight) :
       (r.kind = expensesBucket /\ Commits(r) /\ "budgetIds" \in DOMAIN r.payload) =>
         /\ getExpenseResponse(db'[r.kind], r.rec.id).status = 200
         /\ FieldOf(getExpenseResponse(db'[r.kind], r.rec.id).body[1], "budgetIds")
              = r.payload.budgetIds]_vars

\* C3: an update of an expense or income stored under id leaves the
\* stored createdAt as it was, whatever createdAt the payload carries.
C3_CreatedAtPreserved ==
  [][\A r \in BagToSet(inflight) :
       (r.op = "update" /\ r.kind \in Timestamped /\ Commits(r) /\ Has(db[r.kind], r.id)) =>
         /\ Has(db'[r.kind], r.id)
         /\ Unmarshal(r.kind, Get(db'[r.kind], r.id)).createdAt
              = Unmarshal(r.kind, Get(db[r.kind], r.id)).createdAt]_vars

\* an update whose payload carried createdAt 99 has answered with the
\* createdAt of the record it replaced
C3_Witness ==
  /\ response.op = "update" /\ response.kind = expensesBucket /\ response.status = 200
  /\ response.body[1].description = ReplayPayload(expensesBucket).description
  /\ response.body[1].createdAt = RFC3339(0)
  /\ Unmarshal(expensesBucket, Get(db[expensesBucket], response.id)).createdAt = RFC3339(0)

\* C4: an update of a stored expense or income leaves an updatedAt
\* strictly greater than the one stored before it.
C4_UpdatedAtStrictlyGreater ==
  [][\A r \in BagToSet(inflight) :
       (r.op = "update" /\ r.kind \in Timestamped /\ Commits(r) /\ Has(db[r.kind], r.id)) =>
         Unmarshal(r.kind, Get(db'[r.kind], r.id)).updatedAt
           > Unmarshal(r.kind, Get(db[r.kind], r.id)).updatedAt]_vars

\* C5: the record an update of an expense or income writes has the path
\* parameter as id, and the payload's id and createdAt have no influence
\* on it: it is the record the same update writes for the payload
\* stripped of both, also when nothing is stored under id.
C5_PayloadIdAndCreatedAtIgnored ==
  [][\A r \in BagToSet(inflight) :
       (r.op = "update" /\ r.kind \in Timestamped /\ Commits(r)) =>
         /\ Has(db'[r.kind], r.id)
         /\ Unmarshal(r.kind, Get(db'[r.kind], r.id)).id = r.id
         /\ Get(db'[r.kind], r.id)
              = Get(UpdateTx(r.kind, db[r.kind], r.id,
                             UpdateRecord(r.kind, r.id,
                                          Unmarshal(r.kind, Without(r.payload, {"id", "createdAt"})),
                                          r.rec.updatedAt)), r.id)]_vars

\* C6: for every kind, an update under an id that holds no record answers
\* 200 and leaves a record under that id, which list() returns.
C6_UpdateOfMissingCreates ==
  [][\A r \in BagToSet(inflight) :
       (r.op = "update" /\ Commits(r) /\ ~Has(db[r.kind], r.id)) =>
         /\ response'.op = "update" /\ response'.status = 200
         /\ Has(db'[r.kind], r.id)
         /\ \E i \in 1..Len(ListResponse(r.kind, db'[r.kind]).body) :
              ListResponse(r.kind, db'[r.kind]).body[i].id = r.id]_vars

\* the database file was new and the only request so far was an update of
\* goal "0": it answered 200 and the record is there
C6_Witness ==
  /\ nreq = 1 /\ db[expensesBucket] = EmptyBucket
  /\ response.op = "update" /\ response.kind = goalsBucket
  /\ response.id = UnixNanoId(0) /\ response.status = 200
  /\ Has(db[goalsBucket], UnixNanoId(0))

\* C7: a create stores its record under an id that no record of the
\* bucket held at that moment, whatever id the payload carries.
C7_CreateUnderFreshId ==
  [][\A r \in BagToSet(inflight) :
       (r.op = "create" /\ Commits(r)) => ~Has(db[r.kind], r.rec.id)]_vars

\* C8: creates of expenses without a payload id that run at the same time
\* each hold a different generated id.
C8_ConcurrentCreatesDistinctIds ==
  \A r \in BagToSet(inflight) :
    (r.op = "create" /\ r.kind = expensesBucket /\ "id" \notin DOMAIN r.payload) =>
      /\ CopiesIn(r, inflight) = 1
      /\ \A q \in BagToSet(inflight) \ {r} :
           (q.op = "create" /\ q.kind = expensesBucket /\ "id" \notin DOMAIN q.payload)
             => q.rec.id # r.rec.id

\* C9: a key leaves a bucket only in the step of a delete of that key in
\* that bucket; every other step, updates of the key included, keeps a
\* record under it.
C9_StoredUntilDeleted ==
  [][\A kind \in Buckets : \A k \in DOMAIN db[kind] :
       Has(db'[kind], k)
       \/ /\ nreq' = nreq + 1 /\ inflight' = inflight
          /\ response'.op = "delete" /\ response'.kind = kind /\ response'.id = k]_vars

\* expense "k1" was created in this run and is still stored after a delete
\* of another expense
C9_Witness ==
  /\ response.op = "delete" /\ response.kind = expensesBucket
  /\ response.id = UnixNanoId(0)
  /\ Has(db[expensesBucket], ClientId)
  /\ Unmarshal(expensesBucket, Get(db[expensesBucket], ClientId)).createdAt # 99
  /\ Unmarshal(expensesBucket, Get(db[expensesBucket], ClientId)).createdAt # NoTime

\* C10: a delete of an expense answers 200 and leaves no record under
\* the id; the id gets a record again only by a create or an update of
\* it; and a get of an id that holds no record answers 404.
C10_DeleteThenGetNotFound ==
  [][/\ (nreq' = nreq + 1 /\ inflight' = inflight /\ response'.op = "delete"
          /\ response'.kind = expensesBucket)
         => (response'.status = 200 /\ ~Has(db'[expensesBucket], response'.id))
     /\ \A id \in DOMAIN db'[expensesBucket] \ DOMAIN db[expensesBucket] :
          /\ response'.op \in {"create", "update"}
          /\ response'.kind = expensesBucket /\ response'.id = id
     /\ (nreq' = nreq + 1 /\ inflight' = inflight /\ response'.op = "get"
          /\ ~Has(db[expensesBucket], response'.id))
         => response'.status = 404]_vars

\* the database file held expense "0"; it was deleted, then read: 404
C10_Witness ==
  /\ nreq = 2 /\ inflight = EmptyBag
  /\ \A kind \in Buckets \ {expensesBucket} : db[kind] = UsedStore[kind]
  /\ response = Respond("get", expensesBucket, UnixNanoId(0), 404, << >>)

\* C11: for every kind, a delete under an id that holds no record answers
\* 200 and leaves every bucket as it was (so a second delete of the same
\* id changes nothing).
C11_DeleteOfMissingIsNoOp ==
  [][\A kind \in Buckets :
       (/\ nreq' = nreq + 1 /\ inflight' = inflight
        /\ response'.op = "delete" /\ response'.kind = kind
        /\ ~Has(db[kind], response'.id))
       => (response'.status = 200 /\ db' = db)]_vars

\* the database file held one record of each kind; expense "k1", which
\* never existed, was deleted: 200 and the store is as it was
C11_Witness ==
  /\ nreq = 1 /\ db = UsedStore
  /\ response = Respond("delete", expensesBucket, ClientId, 200, << >>)

\* the expense bucket is empty because its last record was deleted
\* a moment ago; the list that follows is `[]` with 200
C12_Witness ==
  /\ nreq = 2 /\ db[expensesBucket] = EmptyBucket /\ db[goalsBucket] = UsedStore[goalsBucket]
  /\ response.op = "list" /\ response.kind = expensesBucket
  /\ response.status = 200 /\ response.body = << >> /\ ~response.null

\* C12: for every kind, list() on an empty bucket answers 200 with an
\* empty array, never null.
C12_ListOfEmptyBucketIsEmptyArray ==
  \A kind \in Buckets :
    (response.op = "list" /\ response.kind = kind /\ db[kind] = EmptyBucket) =>
      (response.status = 200 /\ response.body = << >> /\ ~response.null)

\* C13: a create of an expense or an income whose payload has no currency
\* stores and returns currency "INR"; a currency the payload carries is
\* stored unchanged.
C13_CurrencyDefaultsToINR ==
  [][\A r \in BagToSet(inflight) :
       (r.op = "create" /\ r.kind \in Timestamped /\ Commits(r)) =>
         LET want == IF FieldOf(r.payload, "currency") = "" THEN "INR"
                     ELSE r.payload.currency
         IN /\ response'.status = 201
            /\ response'.body[1].currency = want
            /\ Unmarshal(r.kind, Get(db'[r.kind], r.rec.id)).currency = want]_vars

\* the sum of member f over the records stored under keys
RECURSIVE TotalOver(_, _, _)
TotalOver(b, keys, f) ==
  IF keys = {} THEN 0
  ELSE LET k == CHOOSE x \in keys : TRUE
       IN FieldOf(b[k], f) + TotalOver(b, keys \ {k}, f)

TotalOf(kind, f) == TotalOver(db[kind], DOMAIN db[kind], f)

\* the fraction q (in lowest terms) is part / whole * 100
IsPercent(q, part, whole) ==
  q.den > 0 /\ whole % q.den = 0 /\ q.num * (whole \div q.den) = part * 100

\* C14: GET /api/stats returns savingsRate = (B - S) / B * 100 when B > 0
\* and 0 otherwise, B the sum of the budgets' limits and S the sum of the
\* expenses' amounts (70 for B = 1000, S = 300), with totalSpent = S,
\* monthlyBudget = B and transactionCount the number of stored expenses.
C14_StatsSavingsRate ==
  response.op = "stats" =>
    LET B == TotalOf(budgetsBucket, "limit")
        S == TotalOf(expensesBucket, "amount")
        stats == response.body[1]
    IN /\ response.status = 200
       /\ stats.totalSpent = S
       /\ stats.monthlyBudget = B
       /\ stats.transactionCount = Cardinality(DOMAIN db[expensesBucket])
       /\ IF B > 0 THEN IsPercent(stats.savingsRate, B - S, B)
          ELSE stats.savingsRate.num = 0
       /\ (B = 1000 /\ S = 300) => stats.savingsRate = [num |-> 70, den |-> 1]

\* budgets of 1000 and expenses of 100, 50 and 150: the rate is 70
C14_Witness ==
  /\ response.op = "stats"
  /\ TotalOf(budgetsBucket, "limit") = 1000 /\ TotalOf(expensesBucket, "amount") = 300
  /\ Cardinality(DOMAIN db[expensesBucket]) = 3
  /\ response.body[1].savingsRate = [num |-> 70, den |-> 1]

\* C15: GET /api/dashboard returns netBalance = totalIncome - totalSpent and
\* savingsRate = (totalIncome - totalSpent) / totalIncome * 100 when
\* totalIncome > 0, else 0, the totals being the sums of amount over the
\* stored incomes and expenses; the budgets' limits play no part in it.
C15_DashboardSavingsRate ==
  response.op = "dashboard" =>
    LET I == TotalOf(incomeBucket, "amount")
        S == TotalOf(expensesBucket, "amount")
        stats == response.body[1].stats
    IN /\ response.status = 200
       /\ stats.totalIncome = I /\ stats.totalSpent = S
       /\ stats.netBalance = I - S
       /\ IF I > 0 THEN IsPercent(stats.savingsRate, I - S, I)
          ELSE stats.savingsRate.num = 0

\* income 300, expenses 150, budgets 1500: the rate is 50, not 90
C15_Witness ==
  /\ response.op = "dashboard"
  /\ TotalOf(incomeBucket, "amount") = 300 /\ TotalOf(expensesBucket, "amount") = 150
  /\ TotalOf(budgetsBucket, "limit") = 1500
  /\ response.body[1].stats.savingsRate = [num |-> 50, den |-> 1]
  /\ response.body[1].stats.netBalance = 150

\* the keys of the expenses stored with category cat
KeysOfCategory(cat) == {k \in DOMAIN db[expensesBucket] : db[expensesBucket][k].category = cat}

\* C16: the dashboard's categoryData has exactly one entry per distinct
\* category among the stored expenses, its value is the sum of amount over
\* the expenses of that category, and the values add up to totalSpent.
C16_CategoryDataGroupsByCategory ==
  response.op = "dashboard" =>
    LET entries == response.body[1].categoryData.items
    IN /\ {entries[i].name : i \in 1..Len(entries)} =
            {db[expensesBucket][k].category : k \in DOMAIN db[expensesBucket]}
       /\ \A i, j \in 1..Len(entries) : entries[i].name = entries[j].name => i = j
       /\ \A i \in 1..Len(entries) :
            entries[i].value =
              TotalOver(db[expensesBucket], KeysOfCategory(entries[i].name), "amount")
       /\ SumOf(entries, "value") = response.body[1].stats.totalSpent

\* 100 and 50 in groceries and 25 in dining: groceries 150 and dining 25
C16_Witness ==
  /\ response.op = "dashboard"
  /\ Cardinality(DOMAIN db[expensesBucket]) = 3
  /\ LET entries == response.body[1].categoryData.items
     IN /\ Len(entries) = 2
        /\ \E i, j \in 1..2 :
             /\ entries[i].name = "groceries" /\ entries[i].value = 150
             /\ entries[j].name = "dining" /\ entries[j].value = 25

\* the colour a dashboard body gives to category cat
ColorOf(body, cat) ==
  LET entries == body.categoryData.items
  IN (CHOOSE e \in {entries[i] : i \in 1..Len(entries)} : e.name = cat).color

\* C17: two GET /api/dashboard calls on the same store state return the same
\* colour for every category (the colour is a function of the stored data).
C17_CategoryColorsDeterministic ==
  response.op = "dashboard" =>
    LET expenses == Scan(expensesBucket, db[expensesBucket])
    IN \A order \in RangeOrders(Categories(expenses)) : \A cat \in Categories(expenses) :
         ColorOf(getDashboardDataResponse(db, TRUE, order).body[1], cat) =
           ColorOf(response.body[1], cat)

\* C18: after a create of an income with amount a under a generated id
\* (201), the dashboard reports totalIncome larger by a than before the
\* create, with savingsRate and netBalance recomputed from it.
C18_IncomeCreateRaisesTotalIncome ==
  [][\A r \in BagToSet(inflight) :
       (r.op = "create" /\ r.kind = incomeBucket /\ FieldOf(r.payload, "id") = ""
         /\ Commits(r)) =>
         LET before == getDashboardDataResponse(db, TRUE, << >>).body[1].stats
             after == getDashboardDataResponse(db', TRUE, << >>).body[1].stats
         IN /\ response'.status = 201
            /\ after.totalIncome = before.totalIncome + r.payload.amount
            /\ after.netBalance = after.totalIncome - after.totalSpent
            /\ after.totalIncome > 0 =>
                 IsPercent(after.savingsRate, after.totalIncome - after.totalSpent,
                           after.totalIncome)]_vars

\* C19: a 200 answer of GET /api/stats or GET /api/dashboard is computed
\* from a complete scan of the buckets (a store error during the scan is
\* answered with 500 and no aggregation result).
C19_AggregationOnlyFromCompleteScan ==
  (response.op \in {"stats", "dashboard"} /\ response.status = 200) =>
    /\ response.op = "stats" =>
         /\ response.body[1].totalSpent = TotalOf(expensesBucket, "amount")
         /\ response.body[1].monthlyBudget = TotalOf(budgetsBucket, "limit")
         /\ response.body[1].transactionCount = Cardinality(DOMAIN db[expensesBucket])
    /\ response.op = "dashboard" =>
         /\ response.body[1].stats.totalSpent = TotalOf(expensesBucket, "amount")
         /\ response.body[1].stats.totalIncome = TotalOf(incomeBucket, "amount")
         /\ \A kind \in {expensesBucket, budgetsBucket, goalsBucket, billsBucket} :
              Len(response.body[1][kind].items) = Cardinality(DOMAIN db[kind])

\* C20: a create or update whose body is not decodable JSON is answered
\* with 400 and leaves every bucket unchanged.
C20_MalformedBodyRejected ==
  [][\A kind \in Buckets :
       (/\ nreq' = nreq + 1 /\ inflight' = inflight
        /\ response'.op \in {"create", "update"} /\ response'.kind = kind)
       => (response'.status = 400 /\ db' = db)]_vars

\* an update of the stored expense "0" with a malformed body: 400, and the
\* database file is as it was opened
C20_Witness ==
  /\ nreq = 1 /\ db = UsedStore
  /\ response = DecodeErrorResponse("update", expensesBucket, UnixNanoId(0))

\* C21: an OPTIONS request to a registered route is answered with 200, the
\* cross-origin headers and no body, and the store is as it was, whatever
\* the route's handler is.
C21_PreflightShortCircuits ==
  [][(nreq' = nreq + 1 /\ inflight' = inflight /\ response'.op = "options") =>
       /\ response'.status = 200 /\ response'.cors
       /\ response'.body = << >> /\ ~response'.null
       /\ db' = db /\ clock' = clock]_vars

\* a pre-flight on /api/expenses/0, the path of update and delete, while
\* the expense is stored: 200 and the database file is as it was opened
C21_Witness ==
  /\ nreq = 1 /\ db = UsedStore
  /\ response = corsPreflightResponse(expensesBucket, UnixNanoId(0))

\* the members of a stored record that an update takes from its body
PayloadDerived(kind) ==
  StructFields(kind) \ ({"id"} \cup TimeFields \cup
                        (IF kind = expensesBucket THEN {"currency"} ELSE {}))

\* the record stored under id holds the body P in every member taken from it
HoldsPayload(kind, b, id, P) ==
  /\ Has(b, id)
  /\ \A f \in PayloadDerived(kind) : Unmarshal(kind, Get(b, id))[f] = Unmarshal(kind, P)[f]

\* the update r, about to commit, ran together with another write of its
\* id: an update of that id is still in flight, or the stored record was
\* written by a handler that read the clock after r did
Overlapped(r) ==
  \/ \E o \in BagToSet(inflight) :
        /\ o.op = "update" /\ o.kind = r.kind /\ o.id = r.id
        /\ o # r \/ CopiesIn(r, inflight) > 1
  \/ /\ r.kind \in Timestamped /\ Has(db[r.kind], r.id)
     /\ Unmarshal(r.kind, Get(db[r.kind], r.id)).updatedAt > r.rec.updatedAt

C24_WritesTouchOneRecord ==
  [][\E kind \in Buckets : \E id \in DOMAIN db[kind] \cup DOMAIN db'[kind] \cup {""} :
       /\ \A other \in Buckets \ {kind} : db'[other] = db[other]
       /\ \A k \in (DOMAIN db[kind] \cup DOMAIN db'[kind]) \ {id} :
            Has(db[kind], k) /\ Has(db'[kind], k) /\ db'[kind][k] = db[kind][k]]_vars

\* expense k1 was created beside the stored expense 0 and the budget: both
\* are as the earlier run left them
C24_Witness ==
  /\ response.op = "create" /\ response.kind = expensesBucket /\ response.id = ClientId
  /\ Has(db[expensesBucket], ClientId) /\ Has(db[expensesBucket], UnixNanoId(0))
  /\ db[expensesBucket][UnixNanoId(0)] = UsedStore[expensesBucket][UnixNanoId(0)]
  /\ db[budgetsBucket] = UsedStore[budgetsBucket]
  /\ db[budgetsBucket][UnixNanoId(0)].spent = 0

\* C27: an update of a stored record replaces it as a whole: every member
\* other than id, createdAt, updatedAt (and an expense's currency) holds the
\* body's value afterwards, the zero value where the body omits the member.
C27_UpdateReplacesWholeRecord ==
  [][\A r \in BagToSet(inflight) :
       (r.op = "update" /\ Has(db[r.kind], r.id) /\ Commits(r)) =>
         \A f \in PayloadDerived(r.kind) :
           Unmarshal(r.kind, Get(db'[r.kind], r.id))[f] = FieldOf(r.payload, f)]_vars

\* expense k1 was created with notes, a categoryColor and an attachment; the
\* update with the UI's body, which has none of them, left none of them
C27_Witness ==
  /\ nreq = 2 /\ response.op = "update" /\ response.kind = expensesBucket
  /\ response.id = ClientId /\ Has(db[expensesBucket], ClientId)
  /\ db[expensesBucket][ClientId].createdAt \in {RFC3339(t) : t \in 0..MaxClock}
  /\ db[expensesBucket][ClientId].description = "veg"
  /\ DOMAIN db[expensesBucket][ClientId] \cap OmitEmpty = {}

\* C29: in every bucket the id member of each stored record is the key it is
\* stored under, and no record is stored under the empty key.
C29_IdIsKey ==
  \A kind \in Buckets : \A k \in DOMAIN db[kind] : k # "" /\ db[kind][k].id = k

\* PUT /api/expenses/0 with a body whose id is k1: the record is stored
\* under 0 with id 0
C29_Witness ==
  /\ response.op = "update" /\ response.kind = expensesBucket
  /\ response.id = UnixNanoId(0) /\ Has(db[expensesBucket], UnixNanoId(0))
  /\ db[expensesBucket][UnixNanoId(0)].description = "lunch"
  /\ db[expensesBucket][UnixNanoId(0)].id = UnixNanoId(0)
  /\ ~Has(db[expensesBucket], ClientId)

\* C30: for a stored expense or income, updatedAt never decreases from one
\* committed write of the record to the next, in every interleaving of
\* concurrent updates of its id.
C30_UpdatedAtNeverDecreases ==
  [][\A r \in BagToSet(inflight) :
       (r.op = "update" /\ r.kind \in Timestamped /\ Has(db[r.kind], r.id) /\ Commits(r)) =>
         Get(db'[r.kind], r.id).updatedAt >= Get(db[r.kind], r.id).updatedAt]_vars

\* the member of the dashboard body that lists the records of a kind
DashboardMember(kind) == IF kind = incomeBucket THEN "incomes" ELSE kind

DashboardKinds == {expensesBucket, budgetsBucket, goalsBucket, billsBucket, incomeBucket}

\* C23: a GET /api/dashboard, also one answered while writes are in flight,
\* is computed from one committed store state: the five lists are the
\* contents of the five buckets at the moment of the read, and the stats'
\* totals and count are the sums and the count over those returned lists.
C23_DashboardReadsOneSnapshot ==
  response.op = "dashboard" =>
    LET body == response.body[1]
        items(kind) == body[DashboardMember(kind)].items
    IN /\ \A kind \in DashboardKinds :
            /\ {items(kind)[i] : i \in 1..Len(items(kind))} =
                 {db[kind][k] : k \in DOMAIN db[kind]}
            /\ Len(items(kind)) = Cardinality(DOMAIN db[kind])
       /\ body.stats.totalSpent = SumOf(items(expensesBucket), "amount")
       /\ body.stats.totalIncome = SumOf(items(incomeBucket), "amount")
       /\ body.stats.monthlyBudget = SumOf(items(budgetsBucket), "limit")
       /\ body.stats.transactionCount = Len(items(expensesBucket))

\* the dashboard was read while an update of the stored expense is in
\* flight: it shows the five buckets as the earlier run left them
C23_Witness ==
  /\ response.op = "dashboard" /\ db = UsedStore
  /\ \E r \in BagToSet(inflight) :
       r.op = "update" /\ r.kind = expensesBucket /\ r.id = UnixNanoId(0)
  /\ response.body[1].stats.totalIncome = 50000
  /\ response.body[1].expenses.items = <<UsedStore[expensesBucket][UnixNanoId(0)]>>

\* C25: the dashboard carries expenses, recentTransactions, budgets, goals,
\* bills, incomes and categoryData as sequences, empty when there is nothing
\* to report, never as null.
C25_DashboardListsNeverNull ==
  response.op = "dashboard" =>
    \A member \in {"expenses", "recentTransactions", "budgets", "goals", "bills",
                   "incomes", "categoryData"} :
      ~response.body[1][member].null

ColoredKeys(cat) ==
  SelectSeq(KeysOf(db[expensesBucket]),
            LAMBDA k : /\ db[expensesBucket][k].category = cat
                       /\ FieldOf(db[expensesBucket][k], "categoryColor") # "")

\* C28: a category one of whose stored expenses carries a categoryColor is
\* reported with the categoryColor of the last such expense of the scan, and
\* takes no slot of the palette: the other categories get the palette's
\* colours one after the other in the order they are listed.
C28_CarriedColorTakesNoPaletteSlot ==
  response.op = "dashboard" =>
    LET entries == response.body[1].categoryData.items
        plain == SelectSeq(entries, LAMBDA e : ColoredKeys(e.name) = << >>)
    IN /\ \A i \in 1..Len(entries) :
            LET keys == ColoredKeys(entries[i].name)
            IN keys # << >> =>
                 entries[i].color = db[expensesBucket][keys[Len(keys)]].categoryColor
       /\ \A i \in 1..Len(plain) :
            plain[i].color = defaultColors[((i - 1) % Len(defaultColors)) + 1]

\* travel, with the colours #3b82f6 and then #ec4899 on its expenses, is
\* listed first with #ec4899; the two categories after it get the first
\* and the second colour of the palette
C28_Witness ==
  /\ response.op = "dashboard"
  /\ LET entries == response.body[1].categoryData.items
     IN /\ Len(entries) = 3
        /\ entries[1].name = "travel" /\ entries[1].color = "#ec4899"
        /\ entries[2].color = defaultColors[1] /\ entries[3].color = defaultColors[2]

====
